---------------------------- MODULE Spec2Model ----------------------------
(***************************************************************************)
(* Model of ampel/contrib/hu/t0/DecentFilter.py: the alert filter          *)
(* DecentFilter and its method apply, which runs a fixed sequence of cuts  *)
(* on one alert and returns None (rejection) or self.on_match_t2_units.    *)
(*                                                                         *)
(* Numbers.  The code works on Python floats; the model works on integers  *)
(* in fixed units, so every comparison of the code is the same comparison  *)
(* on scaled values:                                                       *)
(*   jd, tspan                       days                                  *)
(*   rb, drb, sgscore*, sg tol/th    tenths (0.5 is Half = 5)              *)
(*   fwhm, elong, magdiff, nbad      integer units                         *)
(*   distpsnr*, ssdistnr, PS1 radii  arcsec                                *)
(*   galactic latitude               hundredths of a degree                *)
(*   GAIA DISTANCE                   milliarcsec                           *)
(*   GAIA PM*, Plx and their errors  integers; x/err > s is checked as     *)
(*                                   |x| > s*|err| (err # 0)               *)
(*                                                                         *)
(* A photopoint is a Python dict.  The latest one is modelled by the       *)
(* record `latest` of its values together with the set `missing` of keys   *)
(* that are not in the dict and the set `isNone` of keys whose value is    *)
(* None; reading a missing key raises KeyError, ordering None against a    *)
(* number raises TypeError.                                                *)
(***************************************************************************)
EXTENDS Integers, Sequences, FiniteSets, TLC

VARIABLES
    self,          \* the filter's configuration, set once by __init__
    ampel_alert,   \* the alert handed to apply
    catalog,       \* what catshtm.cone_search answers for this alert
    result,        \* how apply ended
    pc,            \* "call" before apply has run, "return" after
    possis,        \* the fields of one T2RunPossis instance
    possis_call    \* the last call of T2RunPossis.process: its views and how it ended

vars == <<self, ampel_alert, catalog, result, pc, possis, possis_call>>

----------------------------------------------------------------------------
(* Bounds of the explored inputs *)

MaxDet == 2        \* most photopoints in an alert
MaxJd == 3         \* julian dates range over 0..MaxJd
MaxAbsent == 2     \* most keys that are missing or None on the latest photopoint
MaxSrc == 2        \* most sources a cone search returns
MaxViews == 2      \* most t2_views handed to one call of T2RunPossis.process
MaxCalls == 2      \* most calls of T2RunPossis.process on one instance

----------------------------------------------------------------------------
(* Small helpers standing for Python built-ins *)

Abs(x) == IF x < 0 THEN -x ELSE x

Max2(a, b) == IF a >= b THEN a ELSE b

Max3(a, b, c) == Max2(Max2(a, b), c)

SeqMax(s) == CHOOSE x \in {s[i] : i \in DOMAIN s} : \A j \in DOMAIN s : s[j] <= x

SeqMin(s) == CHOOSE x \in {s[i] : i \in DOMAIN s} : \A j \in DOMAIN s : s[j] >= x

\* any(column): some row of the table has the flag
AnyRow(s, flag) == \E i \in DOMAIN s : s[i][flag]

\* 0.5 in the sgscore unit (tenths)
Half == 5

----------------------------------------------------------------------------
(* DecentFilter.__init__ : keys_to_check *)

keys_to_check ==
    << "fwhm", "elong", "magdiff", "nbad", "distpsnr1", "sgscore1", "distpsnr2",
       "sgscore2", "distpsnr3", "sgscore3", "isdiffpos", "ra", "dec", "rb", "ssdistnr" >>

----------------------------------------------------------------------------
(* What one cut of apply does: falls through, returns None after logging   *)
(* `reason` (the key of the logged `extra`), or raises.                    *)

Pass == [st |-> "pass", reason |-> "", field |-> "", error |-> "", queries |-> 0]

Reject(reason, field) ==
    [st |-> "reject", reason |-> reason, field |-> field, error |-> "", queries |-> 0]

Raise(error) ==
    [st |-> "raise", reason |-> "", field |-> "", error |-> error, queries |-> 0]

\* Reading photop[k] for each k of ks in turn and using it in an ordering
\* comparison: "" when all reads succeed, else the exception of the first bad one.
RECURSIVE ReadFault(_, _)
ReadFault(alert, ks) ==
    IF ks = << >> THEN ""
    ELSE IF Head(ks) \in alert.missing THEN "KeyError"
    ELSE IF Head(ks) \in alert.isNone THEN "TypeError"
    ELSE ReadFault(alert, Tail(ks))

----------------------------------------------------------------------------
(* DecentFilter._alert_has_keys *)

KeyBad(alert, i) ==
    keys_to_check[i] \in alert.missing \/ keys_to_check[i] \in alert.isNone

alert_has_keys(alert) ==
    IF \E i \in DOMAIN keys_to_check : KeyBad(alert, i)
    THEN LET i == CHOOSE k \in DOMAIN keys_to_check :
                    KeyBad(alert, k) /\ \A j \in 1..(k - 1) : ~KeyBad(alert, j)
             el == keys_to_check[i]
         IN  IF el \in alert.missing THEN Reject("missing", el) ELSE Reject("isNone", el)
    ELSE Pass

----------------------------------------------------------------------------
(* DecentFilter.get_galactic_latitude: astropy's transformation of (ra,    *)
(* dec) in degrees to galactic latitude, tabulated (in hundredths of a     *)
(* degree) for the sky positions the model uses.                           *)

get_galactic_latitude(transient) ==
    LET p == <<transient.ra, transient.dec>>
    IN  CASE p = <<266, -29>> -> 27
          [] p = <<193, 27>>  -> 8982
          [] p = <<13, -27>>  -> -8982
          [] p = <<0, 0>>     -> -6019
          [] p = <<290, 20>>  -> 298

----------------------------------------------------------------------------
(* DecentFilter.is_star_in_PS1 *)

is_star_in_PS1(slf, transient) ==
    transient.distpsnr1 < slf.ps1_sgveto_rad /\ transient.sgscore1 > slf.ps1_sgveto_th

----------------------------------------------------------------------------
(* DecentFilter.is_confused_in_PS1 *)

is_confused_in_PS1_inclusive(slf, transient) ==
    LET very_close == Max3(transient.distpsnr1, transient.distpsnr2, transient.distpsnr3)
                        < slf.ps1_confusion_rad
        sg_confused == Max3(Abs(transient.sgscore1 - Half), Abs(transient.sgscore2 - Half),
                            Abs(transient.sgscore3 - Half)) <= slf.ps1_confusion_sg_tol
    IN  sg_confused /\ very_close

is_confused_in_PS1(slf, transient) ==
    LET very_close == Max3(transient.distpsnr1, transient.distpsnr2, transient.distpsnr3)
                        < slf.ps1_confusion_rad
        sg_confused == Max3(Abs(transient.sgscore1 - Half), Abs(transient.sgscore2 - Half),
                            Abs(transient.sgscore3 - Half)) < slf.ps1_confusion_sg_tol
    IN  sg_confused /\ very_close

----------------------------------------------------------------------------
(* DecentFilter.is_star_in_gaia *)

\* catshtm.cone_search: the service answers with a list of sources or fails.
cone_search(cat) == cat

\* 1.8 + 0.6 * exp((20 - Mag_G) / 2.05) arcsec, in milliarcsec, tabulated for
\* the magnitudes the model uses.
distance_norm_threshold(Mag_G) ==
    CASE Mag_G = 8  -> 210904
      [] Mag_G = 9  -> 130184
      [] Mag_G = 20 -> 2400
      [] Mag_G = 21 -> 2168

AbsRatioGt(x, err, s) == Abs(x) > s * Abs(err)

\* One row of gaia_tab with its flag columns.
gaia_row(slf, x) ==
    LET DISTANCE_NORM == distance_norm_threshold(x.Mag_G) > x.DISTANCE
    IN  [ FLAG_PROX  |-> DISTANCE_NORM /\ slf.gaia_veto_gmag_min <= x.Mag_G
                            /\ x.Mag_G <= slf.gaia_veto_gmag_max,
          FLAG_PMRA  |-> AbsRatioGt(x.PMRA, x.ErrPMRA, slf.gaia_pm_signif),
          FLAG_PMDec |-> AbsRatioGt(x.PMDec, x.ErrPMDec, slf.gaia_pm_signif),
          FLAG_Plx   |-> AbsRatioGt(x.Plx, x.ErrPlx, slf.gaia_plx_signif),
          FLAG_Clean |-> x.ExcessNoiseSig < slf.gaia_excessnoise_sig_max ]

gaia_flags(slf, srcs) == [i \in DOMAIN srcs |-> gaia_row(slf, srcs[i])]

IsProx(r) == r.FLAG_PROX
IsClean(r) == r.FLAG_Clean

\* The table after the cone search succeeded: True (a star) or False.
gaia_table_is_star_mixed(slf, srcs) ==
    IF Len(srcs) > 0
    THEN LET gaia_tab == gaia_flags(slf, srcs)
             kept == SelectSeq(SelectSeq(gaia_tab, IsProx), IsClean)
         IN  Len(kept) > 0
             /\ (AnyRow(gaia_tab, "FLAG_PMRA") \/ AnyRow(gaia_tab, "FLAG_PMDec")
                   \/ AnyRow(gaia_tab, "FLAG_Plx"))
    ELSE FALSE

gaia_table_is_star(slf, srcs) ==
    IF Len(srcs) > 0
    THEN LET gaia_tab == gaia_flags(slf, srcs)
             kept == SelectSeq(SelectSeq(gaia_tab, IsProx), IsClean)
         IN  AnyRow(kept, "FLAG_PMRA") \/ AnyRow(kept, "FLAG_PMDec") \/ AnyRow(kept, "FLAG_Plx")
    ELSE FALSE

\* The whole method: one cone search; its failure is not caught.
is_star_in_gaia_swallow(slf, transient, cat) ==
    LET answer == cone_search(cat)
    IN  IF ~answer.ok
        THEN [Pass EXCEPT !.queries = 1]
        ELSE IF gaia_table_is_star(slf, answer.srcs)
             THEN [Reject("gaiaIsStar", "") EXCEPT !.queries = 1]
             ELSE [Pass EXCEPT !.queries = 1]

is_star_in_gaia(slf, transient, cat) ==
    LET answer == cone_search(cat)
    IN  IF ~answer.ok
        THEN [Raise("CatalogServiceError") EXCEPT !.queries = 1]
        ELSE IF gaia_table_is_star(slf, answer.srcs)
             THEN [Reject("gaiaIsStar", "") EXCEPT !.queries = 1]
             ELSE [Pass EXCEPT !.queries = 1]

----------------------------------------------------------------------------
(* DecentFilter.apply, cut by cut.  Each operator is one `if ...: return   *)
(* None` block of apply, in the units given at the top.                    *)

\* npp = len(ampel_alert.pps); if npp < self.min_ndet
gate_nDet(slf, alert) ==
    LET npp == Len(alert.jds)
    IN  IF npp < slf.min_ndet THEN Reject("nDet", "") ELSE Pass

\* det_tspan = max(jds) - min(jds); max() of an empty list raises ValueError
gate_tSpan_nonstrict(slf, alert) ==
    IF alert.jds = << >> THEN Raise("ValueError")
    ELSE LET det_tspan == SeqMax(alert.jds) - SeqMin(alert.jds)
         IN  IF ~(slf.min_tspan <= det_tspan /\ det_tspan < slf.max_tspan)
             THEN Reject("tSpan", "") ELSE Pass

gate_tSpan(slf, alert) ==
    IF alert.jds = << >> THEN Raise("ValueError")
    ELSE LET det_tspan == SeqMax(alert.jds) - SeqMin(alert.jds)
         IN  IF ~(slf.min_tspan < det_tspan /\ det_tspan < slf.max_tspan)
             THEN Reject("tSpan", "") ELSE Pass

\* latest = ampel_alert.pps[0]; if not self._alert_has_keys(latest)
gate_keys(slf, alert) ==
    IF alert.jds = << >> THEN Raise("IndexError") ELSE alert_has_keys(alert)

\* latest['isdiffpos'] == 'f' or latest['isdiffpos'] == '0' (None compares unequal)
gate_isdiffpos(slf, alert) ==
    IF "isdiffpos" \in alert.missing THEN Raise("KeyError")
    ELSE IF "isdiffpos" \notin alert.isNone
            /\ (alert.latest.isdiffpos = "f" \/ alert.latest.isdiffpos = "0")
         THEN Reject("isdiffpos", "") ELSE Pass

gate_rb(slf, alert) ==
    IF ReadFault(alert, <<"rb">>) # "" THEN Raise(ReadFault(alert, <<"rb">>))
    ELSE IF alert.latest.rb < slf.min_rb THEN Reject("rb", "") ELSE Pass

\* self.min_drb > 0. and latest['drb'] < self.min_drb: drb is read only when
\* the first conjunct holds
gate_drb_always(slf, alert) ==
    IF ReadFault(alert, <<"drb">>) # "" THEN Raise(ReadFault(alert, <<"drb">>))
    ELSE IF alert.latest.drb < slf.min_drb THEN Reject("drb", "") ELSE Pass

gate_drb(slf, alert) ==
    IF slf.min_drb > 0
    THEN IF ReadFault(alert, <<"drb">>) # "" THEN Raise(ReadFault(alert, <<"drb">>))
         ELSE IF alert.latest.drb < slf.min_drb THEN Reject("drb", "") ELSE Pass
    ELSE Pass

gate_fwhm(slf, alert) ==
    IF ReadFault(alert, <<"fwhm">>) # "" THEN Raise(ReadFault(alert, <<"fwhm">>))
    ELSE IF alert.latest.fwhm > slf.max_fwhm THEN Reject("fwhm", "") ELSE Pass

gate_elong(slf, alert) ==
    IF ReadFault(alert, <<"elong">>) # "" THEN Raise(ReadFault(alert, <<"elong">>))
    ELSE IF alert.latest.elong > slf.max_elong THEN Reject("elong", "") ELSE Pass

gate_magdiff(slf, alert) ==
    IF ReadFault(alert, <<"magdiff">>) # "" THEN Raise(ReadFault(alert, <<"magdiff">>))
    ELSE IF Abs(alert.latest.magdiff) > slf.max_magdiff THEN Reject("magdiff", "") ELSE Pass

\* 0 <= latest['ssdistnr'] < self.min_ssdistnr
gate_ssdistnr_nosign(slf, alert) ==
    IF ReadFault(alert, <<"ssdistnr">>) # "" THEN Raise(ReadFault(alert, <<"ssdistnr">>))
    ELSE IF alert.latest.ssdistnr < slf.min_ssdistnr
         THEN Reject("ssdistnr", "") ELSE Pass

gate_ssdistnr(slf, alert) ==
    IF ReadFault(alert, <<"ssdistnr">>) # "" THEN Raise(ReadFault(alert, <<"ssdistnr">>))
    ELSE IF 0 <= alert.latest.ssdistnr /\ alert.latest.ssdistnr < slf.min_ssdistnr
         THEN Reject("ssdistnr", "") ELSE Pass

\* b = self.get_galactic_latitude(latest); abs(b) < self.min_gal_lat
gate_galPlane(slf, alert) ==
    IF ReadFault(alert, <<"ra", "dec">>) # "" THEN Raise(ReadFault(alert, <<"ra", "dec">>))
    ELSE LET b == get_galactic_latitude(alert.latest)
         IN  IF Abs(b) < slf.min_gal_lat THEN Reject("galPlane", "") ELSE Pass

\* if self.is_star_in_PS1(latest); sgscore1 is read only when distpsnr1 is close
gate_ps1Star(slf, alert) ==
    IF ReadFault(alert, <<"distpsnr1">>) # "" THEN Raise(ReadFault(alert, <<"distpsnr1">>))
    ELSE IF ~(alert.latest.distpsnr1 < slf.ps1_sgveto_rad) THEN Pass
    ELSE IF ReadFault(alert, <<"sgscore1">>) # "" THEN Raise(ReadFault(alert, <<"sgscore1">>))
    ELSE IF is_star_in_PS1(slf, alert.latest) THEN Reject("distpsnr1", "") ELSE Pass

PS1ConfusionKeys ==
    <<"distpsnr1", "distpsnr2", "distpsnr3", "sgscore1", "sgscore2", "sgscore3">>

\* if self.is_confused_in_PS1(latest)
gate_ps1Confusion(slf, alert) ==
    IF ReadFault(alert, PS1ConfusionKeys) # "" THEN Raise(ReadFault(alert, PS1ConfusionKeys))
    ELSE IF is_confused_in_PS1(slf, alert.latest) THEN Reject("ps1Confusion", "") ELSE Pass

\* if self.is_star_in_gaia(latest); SkyCoord(None, ...) raises
gate_gaia(slf, alert, cat) ==
    IF ReadFault(alert, <<"ra", "dec">>) # "" THEN Raise(ReadFault(alert, <<"ra", "dec">>))
    ELSE is_star_in_gaia(slf, alert.latest, cat)

\* The cuts in the order apply makes them.
GateOrder ==
    << "nDet", "tSpan", "keys", "isdiffpos", "rb", "drb", "fwhm", "elong", "magdiff",
       "ssdistnr", "galPlane", "ps1Star", "ps1Confusion", "gaia" >>

Gate(name, slf, alert, cat) ==
    CASE name = "nDet"         -> gate_nDet(slf, alert)
      [] name = "tSpan"        -> gate_tSpan(slf, alert)
      [] name = "keys"         -> gate_keys(slf, alert)
      [] name = "isdiffpos"    -> gate_isdiffpos(slf, alert)
      [] name = "rb"           -> gate_rb(slf, alert)
      [] name = "drb"          -> gate_drb(slf, alert)
      [] name = "fwhm"         -> gate_fwhm(slf, alert)
      [] name = "elong"        -> gate_elong(slf, alert)
      [] name = "magdiff"      -> gate_magdiff(slf, alert)
      [] name = "ssdistnr"     -> gate_ssdistnr(slf, alert)
      [] name = "galPlane"     -> gate_galPlane(slf, alert)
      [] name = "ps1Star"      -> gate_ps1Star(slf, alert)
      [] name = "ps1Confusion" -> gate_ps1Confusion(slf, alert)
      [] name = "gaia"         -> gate_gaia(slf, alert, cat)

\* apply from cut i on, q cone searches made so far: the first cut that does
\* not fall through ends the call; after the last one the alert is accepted.
RECURSIVE run_gates(_, _, _, _, _)
run_gates(slf, alert, cat, i, q) ==
    IF i > Len(GateOrder)
    THEN [ outcome |-> "accept", ret |-> slf.on_match_t2_units, reason |-> "",
           field |-> "", error |-> "", evaluated |-> GateOrder, queries |-> q ]
    ELSE LET g == Gate(GateOrder[i], slf, alert, cat)
         IN  IF g.st = "pass"
             THEN run_gates(slf, alert, cat, i + 1, q + g.queries)
             ELSE [ outcome |-> g.st, ret |-> {}, reason |-> g.reason, field |-> g.field,
                    error |-> g.error, evaluated |-> SubSeq(GateOrder, 1, i),
                    queries |-> q + g.queries ]

apply(slf, alert, cat) == run_gates(slf, alert, cat, 1, 0)

----------------------------------------------------------------------------
(* Inputs.  A scenario is a configuration, an alert and the answer of the  *)
(* catalog service.  BaseConfig and BaseAlert pass every cut; each family  *)
(* varies the part of the input that some cuts read, over values on both   *)
(* sides of, and on, the thresholds.                                       *)

BaseConfig ==
    [ min_ndet |-> 2, min_tspan |-> 0, max_tspan |-> 3, min_rb |-> 3, min_drb |-> 0,
      max_fwhm |-> 5, max_elong |-> 2, max_magdiff |-> 1, max_nbad |-> 0,
      min_ssdistnr |-> 2, min_gal_lat |-> 1400, gaia_rs |-> 20, gaia_pm_signif |-> 3,
      gaia_plx_signif |-> 3, gaia_veto_gmag_min |-> 9, gaia_veto_gmag_max |-> 20,
      gaia_excessnoise_sig_max |-> 2, ps1_sgveto_rad |-> 1, ps1_sgveto_th |-> 8,
      ps1_confusion_rad |-> 3, ps1_confusion_sg_tol |-> 1,
      on_match_t2_units |-> {"T2SNCosmo"} ]

BaseLatest ==
    [ fwhm |-> 3, elong |-> 1, magdiff |-> 0, nbad |-> 0, distpsnr1 |-> 2, sgscore1 |-> 5,
      distpsnr2 |-> 4, sgscore2 |-> 5, distpsnr3 |-> 6, sgscore3 |-> 5, isdiffpos |-> "t",
      ra |-> 193, dec |-> 27, rb |-> 5, drb |-> 5, ssdistnr |-> -1, candid |-> 1 ]

BaseAlert == [ jds |-> <<2, 1>>, latest |-> BaseLatest, missing |-> {}, isNone |-> {} ]

NoSources == [ ok |-> TRUE, srcs |-> << >> ]

Failure == [ ok |-> FALSE, srcs |-> << >> ]

\* A clean GAIA source next to the transient, inside the magnitude window,
\* with a significant proper motion in RA.
StarSrc ==
    [ Mag_G |-> 20, DISTANCE |-> 2000, PMRA |-> 8, ErrPMRA |-> 2, PMDec |-> 0,
      ErrPMDec |-> 2, Plx |-> 0, ErrPlx |-> 2, ExcessNoiseSig |-> 1 ]

StillSrc == [StarSrc EXCEPT !.PMRA = 0]

OneStar == [ ok |-> TRUE, srcs |-> <<StarSrc>> ]

GaiaSources ==
    {StarSrc, StillSrc}
    \cup {[StarSrc EXCEPT !.Mag_G = m] : m \in {8, 9, 21}}
    \cup {[StarSrc EXCEPT !.DISTANCE = d] : d \in {2300, 3000}}
    \cup {[StarSrc EXCEPT !.Mag_G = 21, !.DISTANCE = 2300]}
    \cup {[StarSrc EXCEPT !.ExcessNoiseSig = e] : e \in {2, 3}}
    \cup {[StarSrc EXCEPT !.PMRA = v] : v \in {-8, 6}}
    \cup {[StillSrc EXCEPT !.PMDec = v] : v \in {8, -8, 6}}
    \cup {[StillSrc EXCEPT !.Plx = v] : v \in {8, -8, 6}}

SeqsUpTo(S, n) == UNION {[1..k -> S] : k \in 0..n}

Scenario(c, a, k) == [slf |-> c, alert |-> a, cat |-> k]

\* Every cut passes or fails independently of the others.
FamOrder ==
    { Scenario([BaseConfig EXCEPT !.min_drb = 5, !.ps1_sgveto_th = 3],
               [ jds |-> j,
                 latest |-> [BaseLatest EXCEPT !.isdiffpos = d, !.rb = r, !.drb = dr,
                                !.fwhm = f, !.elong = e, !.magdiff = m, !.ssdistnr = s,
                                !.ra = p[1], !.dec = p[2], !.distpsnr1 = d1,
                                !.distpsnr2 = 1, !.distpsnr3 = d3],
                 missing |-> ab[1], isNone |-> ab[2] ],
               k) :
        j \in {<<2>>, <<2, 2>>, <<2, 1>>},
        ab \in {<<{}, {}>>, <<{"rb"}, {}>>, <<{}, {"nbad"}>>, <<{"drb"}, {}>>},
        d \in {"t", "f"}, r \in {2, 5}, dr \in {4, 5}, f \in {3, 6}, e \in {1, 3},
        m \in {0, -2}, s \in {-1, 1}, p \in {<<193, 27>>, <<266, -29>>},
        d1 \in {0, 2}, d3 \in {1, 6}, k \in {NoSources, OneStar, Failure} }

\* The detection history against the history thresholds.
FamSpan ==
    { Scenario([BaseConfig EXCEPT !.min_ndet = n, !.min_tspan = lo, !.max_tspan = hi],
               [BaseAlert EXCEPT !.jds = j, !.latest.rb = r],
               k) :
        j \in SeqsUpTo(0..MaxJd, MaxDet), n \in {0, 1, 2}, lo \in {-1, 0, 1},
        hi \in {1, 2, 3}, r \in {2, 5}, k \in {NoSources, OneStar} }

AllKeys == {keys_to_check[i] : i \in DOMAIN keys_to_check} \cup {"drb"}

Absences ==
    UNION { {<<a \ n, n>> : n \in SUBSET a} :
            a \in {s \in SUBSET AllKeys : Cardinality(s) <= MaxAbsent} }

\* Keys missing or None on the latest photopoint.
FamFields ==
    { Scenario([BaseConfig EXCEPT !.min_drb = md, !.min_ndet = h[1]],
               [BaseAlert EXCEPT !.jds = h[2], !.missing = ab[1], !.isNone = ab[2]],
               k) :
        ab \in Absences, md \in {0, 5}, h \in {<<2, <<2>> >>, <<1, <<2, 1>> >>},
        k \in {NoSources, Failure} }

\* Image quality values against their thresholds.
FamQuality ==
    { Scenario([BaseConfig EXCEPT !.max_nbad = mb],
               [BaseAlert EXCEPT !.latest.nbad = nb, !.latest.fwhm = f, !.latest.elong = e,
                                 !.latest.magdiff = m, !.latest.isdiffpos = d],
               NoSources) :
        mb \in {0, 1, 2}, nb \in 0..3, f \in {3, 5, 6}, e \in {1, 2, 3},
        m \in {-2, -1, 0, 1, 2}, d \in {"t", "1", "f", "0"} }

\* drb present, missing or None against min_drb.
FamDrb ==
    { Scenario([BaseConfig EXCEPT !.min_drb = md],
               [BaseAlert EXCEPT !.latest.drb = dr[1], !.missing = dr[2], !.isNone = dr[3],
                                 !.latest.rb = r, !.latest.fwhm = f],
               k) :
        md \in {-1, 0, 5},
        dr \in {<<v, {}, {}>> : v \in {0, 4, 5, 6}}
                 \cup {<<0, {"drb"}, {}>>, <<0, {}, {"drb"}>>},
        r \in {2, 5}, f \in {3, 6}, k \in {NoSources, OneStar} }

\* ssdistnr against min_ssdistnr.
FamSSO ==
    { Scenario([BaseConfig EXCEPT !.min_ssdistnr = ms],
               [BaseAlert EXCEPT !.latest.ssdistnr = s, !.latest.magdiff = m,
                                 !.latest.ra = p[1], !.latest.dec = p[2]],
               k) :
        ms \in {-1, 0, 2, 3}, s \in {-999, -1, 0, 1, 2, 3}, m \in {0, 2},
        p \in {<<193, 27>>, <<290, 20>>}, k \in {NoSources, OneStar} }

\* The three nearest PS1 sources against the PS1 thresholds.
FamPS1 ==
    { Scenario([BaseConfig EXCEPT !.ps1_sgveto_th = th, !.ps1_confusion_rad = cr,
                                  !.ps1_confusion_sg_tol = tol],
               [BaseAlert EXCEPT !.latest.distpsnr1 = d1, !.latest.distpsnr2 = d2,
                                 !.latest.distpsnr3 = d3, !.latest.sgscore1 = s1,
                                 !.latest.sgscore2 = s2, !.latest.sgscore3 = s3],
               NoSources) :
        th \in {3, 8}, cr \in {1, 3}, tol \in {1, 2},
        d1 \in {0, 2, 3}, d2 \in {0, 2, 3}, d3 \in {0, 2, 3},
        s1 \in {1, 4, 5, 9}, s2 \in {1, 4, 5, 9}, s3 \in {1, 4, 5, 9} }

\* The cone search's answer against the GAIA thresholds.
FamGaia ==
    { Scenario([BaseConfig EXCEPT !.gaia_plx_signif = ps],
               [BaseAlert EXCEPT !.latest.sgscore1 = s1, !.latest.distpsnr1 = d1],
               k) :
        ps \in {3, 5}, s1 \in {5, 9}, d1 \in {0, 2},
        k \in {Failure} \cup {[ok |-> TRUE, srcs |-> q] : q \in SeqsUpTo(GaiaSources, MaxSrc)} }

----------------------------------------------------------------------------
(* The state machine: __init__ has configured the filter and the host has  *)
(* an alert for it; Apply is one call of DecentFilter.apply.               *)

NoResult ==
    [ outcome |-> "none", ret |-> {}, reason |-> "", field |-> "", error |-> "",
      evaluated |-> << >>, queries |-> 0 ]

\* no T2RunPossis unit has been configured
NoPossis == [ configured |-> "none" ]

NoCall == [ state |-> "none" ]

InitFrom(Fam) ==
    \E s \in Fam :
        /\ self = s.slf
        /\ ampel_alert = s.alert
        /\ catalog = s.cat
        /\ result = NoResult
        /\ pc = "call"
        /\ possis = NoPossis
        /\ possis_call = NoCall

Apply ==
    /\ pc = "call"
    /\ result' = apply(self, ampel_alert, catalog)
    /\ pc' = "return"
    /\ UNCHANGED <<self, ampel_alert, catalog, possis, possis_call>>

Next == Apply

SpecOrder == InitFrom(FamOrder) /\ [][Next]_vars
SpecSpan == InitFrom(FamSpan) /\ [][Next]_vars
SpecFields == InitFrom(FamFields) /\ [][Next]_vars
SpecQuality == InitFrom(FamQuality) /\ [][Next]_vars
SpecDrb == InitFrom(FamDrb) /\ [][Next]_vars
SpecSSO == InitFrom(FamSSO) /\ [][Next]_vars
SpecPS1 == InitFrom(FamPS1) /\ [][Next]_vars
SpecGaia == InitFrom(FamGaia) /\ [][Next]_vars

Init ==
    InitFrom(FamSpan \cup FamQuality \cup FamDrb \cup FamSSO \cup FamGaia)

Spec == Init /\ [][Next]_vars

----------------------------------------------------------------------------
(* The cuts as the specification states them, on the current input.  These *)
(* are written from the statement of each cut, not from the operators      *)
(* above, and are what the properties below compare apply against.         *)

Latest == ampel_alert.latest

Present(k) == k \notin ampel_alert.missing /\ k \notin ampel_alert.isNone

Returned == pc = "return"

Accepted == result.outcome = "accept" /\ result.ret = self.on_match_t2_units

RejectedFor(reason) == result.outcome = "reject" /\ result.reason = reason

\* the cut was evaluated: apply got as far as its i-th cut
Reached(i) == Len(result.evaluated) >= i

JdSet == {ampel_alert.jds[i] : i \in DOMAIN ampel_alert.jds}

\* s = max(jd) - min(jd): the largest difference of two detection dates
Span == CHOOSE d \in {a - b : a \in JdSet, b \in JdSet} :
            \A a \in JdSet, b \in JdSet : a - b <= d

PS1Dists == {Latest.distpsnr1, Latest.distpsnr2, Latest.distpsnr3}

PS1Scores == {Latest.sgscore1, Latest.sgscore2, Latest.sgscore3}

PS1Confused ==
    /\ \A d \in PS1Dists : d < self.ps1_confusion_rad
    /\ \A s \in PS1Scores : s - Half < self.ps1_confusion_sg_tol
                            /\ Half - s < self.ps1_confusion_sg_tol

\* one GAIA source that is proximate, in the magnitude window, clean and moving
GaiaQualifies(x) ==
    /\ x.DISTANCE < distance_norm_threshold(x.Mag_G)
    /\ self.gaia_veto_gmag_min <= x.Mag_G /\ x.Mag_G <= self.gaia_veto_gmag_max
    /\ x.ExcessNoiseSig < self.gaia_excessnoise_sig_max
    /\ \/ x.PMRA > self.gaia_pm_signif * x.ErrPMRA
       \/ -x.PMRA > self.gaia_pm_signif * x.ErrPMRA
       \/ x.PMDec > self.gaia_pm_signif * x.ErrPMDec
       \/ -x.PMDec > self.gaia_pm_signif * x.ErrPMDec
       \/ x.Plx > self.gaia_plx_signif * x.ErrPlx
       \/ -x.Plx > self.gaia_plx_signif * x.ErrPlx

GaiaStar == \E i \in DOMAIN catalog.srcs : GaiaQualifies(catalog.srcs[i])

ClaimedOrder ==
    << "nDet", "tSpan", "keys", "isdiffpos", "rb", "drb", "fwhm", "elong", "magdiff",
       "ssdistnr", "galPlane", "ps1Star", "ps1Confusion", "gaia" >>

\* the log keys of a cut's rejection
ClaimedReasons(g) ==
    CASE g = "keys"    -> {"missing", "isNone"}
      [] g = "ps1Star" -> {"distpsnr1"}
      [] g = "gaia"    -> {"gaiaIsStar"}
      [] OTHER         -> {g}

\* the cut's rejection condition holds
ClaimFails(g) ==
    CASE g = "nDet"         -> Len(ampel_alert.jds) < self.min_ndet
      [] g = "tSpan"        -> /\ JdSet # {}
                               /\ (Span <= self.min_tspan \/ Span >= self.max_tspan)
      [] g = "keys"         -> \E i \in DOMAIN keys_to_check : ~Present(keys_to_check[i])
      [] g = "isdiffpos"    -> Present("isdiffpos") /\ Latest.isdiffpos \in {"f", "0"}
      [] g = "rb"           -> Present("rb") /\ Latest.rb < self.min_rb
      [] g = "drb"          -> self.min_drb > 0 /\ Present("drb") /\ Latest.drb < self.min_drb
      [] g = "fwhm"         -> Present("fwhm") /\ Latest.fwhm > self.max_fwhm
      [] g = "elong"        -> Present("elong") /\ Latest.elong > self.max_elong
      [] g = "magdiff"      -> /\ Present("magdiff")
                               /\ (Latest.magdiff > self.max_magdiff
                                     \/ -Latest.magdiff > self.max_magdiff)
      [] g = "ssdistnr"     -> /\ Present("ssdistnr")
                               /\ 0 <= Latest.ssdistnr /\ Latest.ssdistnr < self.min_ssdistnr
      [] g = "galPlane"     -> /\ Present("ra") /\ Present("dec")
                               /\ get_galactic_latitude(Latest) < self.min_gal_lat
                               /\ -get_galactic_latitude(Latest) < self.min_gal_lat
      [] g = "ps1Star"      -> /\ Present("distpsnr1") /\ Present("sgscore1")
                               /\ Latest.distpsnr1 < self.ps1_sgveto_rad
                               /\ Latest.sgscore1 > self.ps1_sgveto_th
      [] g = "ps1Confusion" -> /\ \A i \in 5..10 : Present(keys_to_check[i])
                               /\ PS1Confused
      [] g = "gaia"         -> catalog.ok /\ GaiaStar

\* the cut has what it reads and its rejection condition does not hold
ClaimPasses(g) ==
    /\ ~ClaimFails(g)
    /\ CASE g = "tSpan"   -> JdSet # {}
         [] g = "drb"     -> self.min_drb <= 0 \/ Present("drb")
         [] g = "gaia"    -> catalog.ok
         [] OTHER         -> TRUE

IndexOf(g) == CHOOSE i \in DOMAIN ClaimedOrder : ClaimedOrder[i] = g

\* every cut before g, in the claimed order, passes
EarlierPass(g) == \A i \in 1..(IndexOf(g) - 1) : ClaimPasses(ClaimedOrder[i])

\* every cut but g passes
OthersPass(g) == \A i \in DOMAIN ClaimedOrder : i = IndexOf(g) \/ ClaimPasses(ClaimedOrder[i])

FailingCuts == {i \in DOMAIN ClaimedOrder : ClaimFails(ClaimedOrder[i])}

FirstFailing == CHOOSE i \in FailingCuts : \A j \in FailingCuts : i <= j

\* What C1 says of a finished call whose cone search, if made, was answered.
OrderedOutcome ==
    IF FailingCuts = {}
    THEN Accepted /\ result.queries = 1
    ELSE /\ result.outcome = "reject"
         /\ result.reason \in ClaimedReasons(ClaimedOrder[FirstFailing])
         /\ result.evaluated = SubSeq(ClaimedOrder, 1, FirstFailing)
         /\ result.queries = (IF FirstFailing = Len(ClaimedOrder) THEN 1 ELSE 0)

----------------------------------------------------------------------------
(* C1: apply makes the cuts in the order nDet, tSpan, keys, isdiffpos, rb, *)
(* drb, fwhm, elong, magdiff, ssdistnr, galPlane, PS1 star, PS1 confusion, *)
(* GAIA: for every alert and configuration the call ends rejecting with    *)
(* the reason of the first failing cut, having evaluated no later cut and  *)
(* made a cone search only as the last step, or ends accepting with        *)
(* on_match_t2_units when no cut fails.                                    *)
C1_GateOrder == (Returned /\ catalog.ok) => OrderedOutcome

(* C1, on the calls that end by returning: the same statement holds; the   *)
(* calls on which C1_GateOrder fails are exactly calls that raise.         *)
C1_GateOrderWhenReturning ==
    (Returned /\ catalog.ok /\ result.outcome # "raise") => OrderedOutcome

----------------------------------------------------------------------------
(* C2: for an alert with at least min_ndet detections and history span s,  *)
(* apply rejects when s <= min_tspan or s >= max_tspan (an s equal to a    *)
(* bound rejects), and accepts when min_tspan < s < max_tspan and every    *)
(* other cut passes.                                                       *)
C2_HistorySpan ==
    (Returned /\ JdSet # {} /\ Len(ampel_alert.jds) >= self.min_ndet) =>
        /\ (Span <= self.min_tspan \/ Span >= self.max_tspan) => RejectedFor("tSpan")
        /\ (self.min_tspan < Span /\ Span < self.max_tspan /\ OthersPass("tSpan")) => Accepted

\* a history whose span equals min_tspan, below max_tspan, was rejected
C2_Witness ==
    /\ Returned /\ JdSet # {} /\ Len(ampel_alert.jds) >= self.min_ndet
    /\ Len(ampel_alert.jds) = 2
    /\ Span = self.min_tspan /\ Span < self.max_tspan
    /\ RejectedFor("tSpan")

----------------------------------------------------------------------------
(* C3: apply never raises: whatever keys are missing or None on the latest *)
(* photopoint and however many detections the alert has, if the cone       *)
(* search did not fail the call ends by returning None or the tag set.     *)
C3_NeverRaises ==
    (Returned /\ result.error # "CatalogServiceError") => result.outcome \in {"accept", "reject"}

----------------------------------------------------------------------------
(* C4: when the cone search fails, apply neither accepts nor rejects: the  *)
(* call ends with the service's error, after exactly one query; and an     *)
(* alert whose cone search would fail is never accepted nor rejected as a  *)
(* GAIA star.                                                              *)
C4_CatalogFailurePropagates ==
    (Returned /\ ~catalog.ok) =>
        /\ ~Accepted /\ ~RejectedFor("gaiaIsStar")
        /\ result.queries <= 1
        /\ EarlierPass("gaia") =>
              /\ result.outcome = "raise"
              /\ result.error = "CatalogServiceError"
              /\ result.queries = 1

\* the cone search was made, failed, and the call raised
C4_Witness ==
    /\ Returned /\ ~catalog.ok /\ EarlierPass("gaia")
    /\ result.queries = 1 /\ result.outcome = "raise"

----------------------------------------------------------------------------
(* C5: once the GAIA cut is reached and the cone search answers, apply     *)
(* rejects (as a GAIA star) exactly when one returned source is at once    *)
(* proximate, inside [gaia_veto_gmag_min, gaia_veto_gmag_max], below the   *)
(* excess-noise maximum and significant in PMRA, PMDec or Plx; otherwise   *)
(* it accepts.  In particular an empty answer never rejects.               *)
C5_GaiaVeto ==
    (Returned /\ catalog.ok /\ EarlierPass("gaia")) =>
        /\ RejectedFor("gaiaIsStar") <=> GaiaStar
        /\ Accepted <=> ~GaiaStar

\* two sources, one proximate and clean but still, the other moving but not
\* proximate or not clean: no single source qualifies and the alert is accepted
C5_Witness ==
    /\ Returned /\ catalog.ok /\ EarlierPass("gaia") /\ Accepted
    /\ Len(catalog.srcs) = 2
    /\ catalog.srcs[1] = StillSrc
    /\ catalog.srcs[2].PMRA > self.gaia_pm_signif * catalog.srcs[2].ErrPMRA
    /\ ~GaiaQualifies(catalog.srcs[2])

----------------------------------------------------------------------------
(* C6: the decision does not depend on the PS1 star-galaxy scores: with    *)
(* sgscore1, sgscore2 and sgscore3 of the latest photopoint replaced by    *)
(* any other values, the same configuration and catalog answer give the    *)
(* same decision.                                                          *)

SgValues == {1, 4, 5, 9}

WithScores(s1, s2, s3) ==
    [ampel_alert EXCEPT !.latest.sgscore1 = s1, !.latest.sgscore2 = s2,
                        !.latest.sgscore3 = s3]

C6_IndependentOfSgscore ==
    Returned =>
        \A s1 \in SgValues, s2 \in SgValues, s3 \in SgValues :
            apply(self, WithScores(s1, s2, s3), catalog).outcome = result.outcome

----------------------------------------------------------------------------
(* C7: an alert whose latest photopoint has more bad pixels than MAX_NBAD  *)
(* is rejected.                                                            *)
C7_RejectsBadPixels ==
    (Returned /\ Present("nbad") /\ Latest.nbad > self.max_nbad) => result.outcome = "reject"

----------------------------------------------------------------------------
(* C8: with min_drb = 0 apply never rejects for drb and never reads it:    *)
(* the call ends the same way whether drb is missing, None or any value.   *)
(* With min_drb > 0 apply rejects for drb exactly when the drb cut is      *)
(* reached with a drb below min_drb (a drb equal to min_drb passes).       *)

DrbVariants ==
    {[ampel_alert EXCEPT !.latest.drb = v, !.missing = @ \ {"drb"}, !.isNone = @ \ {"drb"}] :
        v \in {0, 4, 5, 6}}
    \cup {[ampel_alert EXCEPT !.missing = @ \cup {"drb"}, !.isNone = @ \ {"drb"}],
          [ampel_alert EXCEPT !.isNone = @ \cup {"drb"}, !.missing = @ \ {"drb"}]}

C8_DrbGate ==
    Returned =>
        /\ self.min_drb = 0 =>
              /\ ~RejectedFor("drb")
              /\ \A a \in DrbVariants : apply(self, a, catalog) = result
        /\ self.min_drb > 0 =>
              (RejectedFor("drb") <=>
                  (EarlierPass("drb") /\ Present("drb") /\ Latest.drb < self.min_drb))

\* the cut is disabled, drb is missing, and the alert was accepted
C8_Witness ==
    /\ Returned /\ self.min_drb = 0 /\ "drb" \in ampel_alert.missing /\ Accepted

----------------------------------------------------------------------------
(* C9: apply rejects for the solar-system-object distance exactly when the *)
(* cut is reached and 0 <= ssdistnr < min_ssdistnr: a distance of 0 under  *)
(* a positive threshold rejects, a distance equal to the threshold does    *)
(* not, and a negative distance never does.                                *)
C9_SsoGate ==
    Returned =>
        /\ RejectedFor("ssdistnr") <=>
              (EarlierPass("ssdistnr") /\ 0 <= Latest.ssdistnr
                 /\ Latest.ssdistnr < self.min_ssdistnr)
        /\ Latest.ssdistnr < 0 => ~RejectedFor("ssdistnr")
        /\ (Latest.ssdistnr = self.min_ssdistnr /\ OthersPass("ssdistnr")) => Accepted

\* a negative distance under a positive threshold went through the cut
C9_Witness ==
    /\ Returned /\ Latest.ssdistnr < 0 /\ self.min_ssdistnr > 0
    /\ EarlierPass("ssdistnr") /\ Reached(IndexOf("ssdistnr") + 1)

----------------------------------------------------------------------------
(* C10: once the PS1 confusion cut is reached, apply rejects for confusion *)
(* exactly when all three PS1 distances are below ps1_confusion_rad and    *)
(* all three scores are less than ps1_confusion_sg_tol away from 0.5; a    *)
(* distance equal to the radius or a score at the tolerance prevents it.   *)
C10_PS1Confusion ==
    Returned =>
        /\ RejectedFor("ps1Confusion") <=> (EarlierPass("ps1Confusion") /\ PS1Confused)
        /\ (EarlierPass("ps1Confusion") /\ PS1Scores = {1, 5, 9}
               /\ self.ps1_confusion_sg_tol = 1) => ~RejectedFor("ps1Confusion")

\* three PS1 sources at distance 0 with score 0.5 each were rejected as confused
C10_Witness ==
    /\ Returned /\ PS1Dists = {0} /\ PS1Scores = {Half}
    /\ RejectedFor("ps1Confusion")

----------------------------------------------------------------------------
(* ampel/contrib/hu/t2/T2RunPossis.py: the unit T2RunPossis.  One instance *)
(* is configured by post_init and then serves calls of process, each with  *)
(* its own t2_views.  Julian dates are integers (days).                    *)
(*                                                                         *)
(* explosion_time_jd is None, a float or the string 'StockTriggerTime':    *)
(* it is modelled by a record [kind, jd].  A t2 view is [unit, payload],   *)
(* its payload a list of result dicts (get_payload() returning one dict is *)
(* a list of length one); a result dict is [has, type, value]: whether it  *)
(* has the key explosion_time, the Python type of the value and the value. *)

StockTriggerTime == [kind |-> "StockTriggerTime", jd |-> 0]

NoneTime == [kind |-> "None", jd |-> 0]

FloatTime(x) == [kind |-> "float", jd |-> x]

\* astropy Time(<date string>, scale="utc").jd: a date string is modelled by
\* the integer n of its modified julian date n + 0.5, and jd = mjd + 2400000.5
TimeJd(n) == n + 2400001

\* sncosmo_model.param_names of a model without effects
param_names == <<"z", "t0", "amplitude">>

\* list.remove(x): the list without the first x; ValueError when x is not in it
Contains(list, x) == \E i \in DOMAIN list : list[i] = x

Remove(list, x) ==
    LET i == CHOOSE k \in DOMAIN list : list[k] = x /\ \A j \in 1..(k - 1) : list[j] # x
    IN  SubSeq(list, 1, i - 1) \o SubSeq(list, i + 1, Len(list))

\* T2RunPossis.post_init, from the model's creation on (apply_mwcorrection
\* False): the instance's fields after construction
post_init(explosion_time_jd, fix_z) ==
    LET p1 == IF fix_z THEN Remove(param_names, "z") ELSE param_names
        fixed == explosion_time_jd.kind = "float"
    IN  [ configured |-> explosion_time_jd.kind,
          explosion_time_jd |-> explosion_time_jd,
          t0 |-> IF fixed THEN explosion_time_jd.jd ELSE 0,
          fit_params |-> IF fixed THEN Remove(p1, "t0") ELSE p1,
          initial_fit_params |-> p1 ]

LoopDone(u) == [unit |-> u, ended |-> "", error |-> ""]

\* the for loop of process over t2_views, one view at a time
RECURSIVE stock_loop(_, _)
stock_loop(u, t2_views) ==
    IF t2_views = << >> THEN LoopDone(u)
    ELSE LET t2_view == Head(t2_views)
             t2_res == t2_view.payload[Len(t2_view.payload)]
         IN  IF t2_view.unit # "T2PropagateStockInfo"
             THEN stock_loop(u, Tail(t2_views))
             ELSE IF ~t2_res.has
             THEN [unit |-> u, ended |-> "T2_MISSING_INFO", error |-> ""]
             ELSE LET jd == IF t2_res.type = "float" THEN FloatTime(t2_res.value)
                            ELSE IF t2_res.type = "str" THEN FloatTime(TimeJd(t2_res.value))
                            ELSE u.explosion_time_jd
                      u1 == [u EXCEPT !.explosion_time_jd = jd]
                  IN  \* sncosmo_model.set(t0='StockTriggerTime') cannot store a string
                      IF jd.kind # "float"
                      THEN [unit |-> u1, ended |-> "raise", error |-> "ValueError"]
                      ELSE LET u2 == [u1 EXCEPT !.t0 = jd.jd]
                           IN  IF ~Contains(u2.fit_params, "t0")
                               THEN [unit |-> u2, ended |-> "raise", error |-> "ValueError"]
                               ELSE stock_loop([u2 EXCEPT !.fit_params = Remove(@, "t0")],
                                               Tail(t2_views))

\* T2RunPossis.process: the loop when explosion_time_jd is still
\* 'StockTriggerTime', then T2RunSncosmo.process, which fits the parameters
\* of fit_params with the model's t0 as it stands
process(u, t2_views) ==
    LET r == IF u.explosion_time_jd.kind = "StockTriggerTime"
             THEN stock_loop(u, t2_views) ELSE LoopDone(u)
    IN  IF r.ended = "" THEN [r EXCEPT !.ended = "fit"] ELSE r

\* the views a call can be handed
Results ==
    { [has |-> FALSE, type |-> "none", value |-> 0],
      [has |-> TRUE, type |-> "float", value |-> 2459001],
      [has |-> TRUE, type |-> "float", value |-> 2459002],
      [has |-> TRUE, type |-> "str", value |-> 59003],
      [has |-> TRUE, type |-> "int", value |-> 2459004] }

Views ==
    { [unit |-> "T2DigestRedshifts", payload |-> <<[has |-> FALSE, type |-> "none", value |-> 0]>>] }
    \cup { [unit |-> "T2PropagateStockInfo", payload |-> <<r>>] : r \in Results }
    \cup { [unit |-> "T2PropagateStockInfo",
            payload |-> <<[has |-> FALSE, type |-> "none", value |-> 0],
                          [has |-> TRUE, type |-> "float", value |-> 2459001]>>] }

InitPossis ==
    /\ \E e \in {StockTriggerTime, NoneTime, FloatTime(2459000)}, fix_z \in BOOLEAN :
           possis = post_init(e, fix_z)
    /\ possis_call = [state |-> "idle", t2_views |-> << >>, ended |-> "", error |-> "",
                      calls |-> 0]
    /\ self = BaseConfig
    /\ ampel_alert = BaseAlert
    /\ catalog = NoSources
    /\ result = NoResult
    /\ pc = "idle"

\* one call of process on the instance
Process ==
    /\ possis_call.state \in {"idle", "return"}
    /\ possis_call.calls < MaxCalls
    /\ \E t2_views \in SeqsUpTo(Views, MaxViews) :
           LET r == process(possis, t2_views)
           IN  /\ possis' = r.unit
               /\ possis_call' = [state |-> "return", t2_views |-> t2_views,
                                  ended |-> r.ended, error |-> r.error,
                                  calls |-> possis_call.calls + 1]
    /\ UNCHANGED <<self, ampel_alert, catalog, result, pc>>

NextPossis == Process

SpecPossis == InitPossis /\ [][NextPossis]_vars

----------------------------------------------------------------------------
(* The explosion times the last call's views give: one for each            *)
(* T2PropagateStockInfo view, from the last dict of its payload.           *)

StockResults ==
    { possis_call.t2_views[i].payload[Len(possis_call.t2_views[i].payload)] :
        i \in {j \in DOMAIN possis_call.t2_views :
                 possis_call.t2_views[j].unit = "T2PropagateStockInfo"} }

CallTimes ==
    { IF r.type = "float" THEN r.value ELSE r.value + 2400001 :
        r \in {x \in StockResults : x.has /\ x.type \in {"float", "str"}} }

\* the last call was on a 'StockTriggerTime' instance, and every stock view
\* of it carries an explosion time as a float or a date string
StockTimedCall ==
    /\ possis_call.state = "return"
    /\ possis.configured = "StockTriggerTime"
    /\ StockResults # {}
    /\ \A r \in StockResults : r.has /\ r.type \in {"float", "str"}

T0Fixed ==
    /\ possis_call.ended = "fit"
    /\ possis.t0 \in CallTimes
    /\ possis.fit_params = SelectSeq(possis.initial_fit_params, LAMBDA x : x # "t0")

(* C11: on an instance configured with explosion_time_jd =                 *)
(* 'StockTriggerTime', every call of process whose views carry an          *)
(* explosion time from T2PropagateStockInfo ends with the fit, the model's *)
(* t0 set to an explosion time of that call and 't0' removed from          *)
(* fit_params once, without raising, whatever calls came before and also   *)
(* with more than one T2PropagateStockInfo view.                           *)
C11_StockTriggerTimeEveryCall == StockTimedCall => T0Fixed

(* C11, on the first call of an instance when exactly one view is from     *)
(* T2PropagateStockInfo: there the statement holds.                        *)
C11_FirstCallOneStockView ==
    (StockTimedCall /\ possis_call.calls = 1
        /\ Cardinality({j \in DOMAIN possis_call.t2_views :
                          possis_call.t2_views[j].unit = "T2PropagateStockInfo"}) = 1)
    => T0Fixed

(* C11, on the second call of an instance, when it ends with the fit: t0   *)
(* is an explosion time of that call (not the one of the first call).      *)
C11_SecondCallUsesItsOwnTime ==
    (StockTimedCall /\ possis_call.calls = 2 /\ possis_call.ended = "fit")
    => possis.t0 \in CallTimes

=============================================================================
